---- MODULE Spec2Model ----
(***************************************************************************)
(* Reflector-Ride-Maps: the two map viewers of the repository as one state *)
(* machine.  `script` says which viewer the page runs:                     *)
(*   "app.js"             src/app.js (trips + aggregated routes, filters)  *)
(*   "generate-config.js" the viewer embedded in src/generate-config.js    *)
(*                        from line 25 on (trips, selection, statistics).  *)
(* Opacities are kept in hundredths (0.7 -> 70, 0.15 -> 15, 1.0 -> 100).   *)
(***************************************************************************)
EXTENDS Integers, Sequences, FiniteSets, TLC

VARIABLES
    script,         \* which viewer script the page runs
    pcLoad,         \* position of the async map.on('load') handler
    pcAgg,          \* position of the aggregated-routes load (app.js)
    pcStats,        \* position of loadAllTripData (generate-config.js)
    sources,        \* ids registered with map.addSource
    style,          \* map layers: layer id -> [color, width, opacity, visibility, filter]
    bound,          \* listener groups registered by the setup* functions
    tripLayers,     \* let tripLayers = []
    speedMode,      \* let speedMode = 'gradient'
    showSpeedColors,\* let showSpeedColors = false
    selectedTrip,   \* let selectedTrip = null
    allTripData,    \* let allTripData = {}
    dom,            \* the controls and display fields of the page
    logged,         \* console.error entries of the load handlers
    failures,       \* number of events so far in which a restyle call threw
    lastClick,      \* what the last map click did: none, select, replace, reset, noop
    view,           \* the map's centre and zoom
    originalView,   \* originalCenter / originalZoom of loadAllTripData
    summary,        \* statDistance, statAvgSpeed, statTotalTime of the summary panel
    popup,          \* the totals in the open popup, and where they came from
    startup,        \* the token, the alerts, the map and its listeners at start-up
    input,          \* the arguments of a function evaluated by itself
    output          \* what it returns

vars == <<script, pcLoad, pcAgg, pcStats, sources, style, bound, tripLayers, speedMode,
          showSpeedColors, selectedTrip, allTripData, dom, logged,
          failures, lastClick, view, originalView, summary, popup,
          startup, input, output>>

(* ------------------------------ bounds -------------------------------- *)
\* most layers the tile source's metadata declares
MaxTrips == 2
\* most events in which a restyle call throws
MaxFailures == 1
\* largest value of the minimum-sample-count slider
MaxSlider == 2
\* largest distance total (metres) and time total (half seconds) formatted,
\* next to the totals of the examples
MaxDistance == 30
MaxHalfSeconds == 122
\* largest speed of a feature, and how far below zero a speed can be
MaxSpeed == 31
MaxBelowZero == 3

(* ----------------------------- constants ------------------------------ *)
null == "null"
DEFAULT_COLOR == "#FF6600"
AGG_LAYER == "aggregated-routes-layer"

\* vector_layers ids the metadata can declare, in declaration order
TripName(i) == "trip_" \o ToString(i)
DeclaredLayers(n) == [i \in 1..n |-> TripName(i)]
Range(s) == {s[i] : i \in 1..Len(s)}

EmptyMap == [x \in {} |-> x]

Literal(c) == [op |-> "literal", prop |-> "", base |-> c, stops |-> <<>>]

(* ------------------------ colouring policy ---------------------------- *)
Interpolate(prop, stops) ==
    [op |-> "interpolate", prop |-> prop, base |-> "", stops |-> stops]
Step(prop, base, stops) ==
    [op |-> "step", prop |-> prop, base |-> base, stops |-> stops]

\* a colour function whose 'step' table starts with a stop at 0
getSpeedColorExpressionStepFromZero(mode) ==
    IF mode = "gradient"
    THEN Interpolate("Speed",
            << <<0, "#808080">>, <<2, "#DC2626">>, <<5, "#F97316">>,
               <<10, "#FACC15">>, <<15, "#22C55E">>, <<20, "#3B82F6">>,
               <<25, "#6366F1">> >>)
    ELSE Step("Speed", "#000000",
            << <<0, "#808080">>, <<2, "#DC2626">>, <<5, "#F97316">>,
               <<10, "#FACC15">>, <<15, "#22C55E">>, <<20, "#3B82F6">>,
               <<25, "#6366F1">> >>)

\* generate-config.js, getSpeedColorExpression
getSpeedColorExpressionViewer(mode) ==
    IF mode = "gradient"
    THEN Interpolate("Speed",
            << <<0, "#808080">>, <<2, "#DC2626">>, <<5, "#F97316">>,
               <<10, "#FACC15">>, <<15, "#22C55E">>, <<20, "#3B82F6">>,
               <<25, "#6366F1">> >>)
    ELSE Step("Speed", "#808080",
            << <<2, "#DC2626">>, <<5, "#F97316">>, <<10, "#FACC15">>,
               <<15, "#22C55E">>, <<20, "#3B82F6">>, <<25, "#6366F1">> >>)

\* the breakpoints shared by app.js's two colour functions
AppGradientStops ==
    << <<0, "#DC2626">>, <<5, "#F97316">>, <<8, "#FB923C">>, <<12, "#FACC15">>,
       <<16, "#BEF264">>, <<20, "#4ADE80">>, <<25, "#22C55E">>, <<30, "#059669">> >>
AppStepStops ==
    << <<5, "#F97316">>, <<10, "#FACC15">>, <<15, "#BEF264">>,
       <<20, "#4ADE80">>, <<25, "#22C55E">>, <<30, "#059669">> >>

\* app.js, getSpeedColorExpression
getSpeedColorExpressionApp(mode) ==
    IF mode = "gradient"
    THEN Interpolate("Speed", AppGradientStops)
    ELSE Step("Speed", "#DC2626", AppStepStops)

\* app.js, getAggregatedSpeedColorExpression
getAggregatedSpeedColorExpression(mode) ==
    IF mode = "gradient"
    THEN Interpolate("avg_speed", AppGradientStops)
    ELSE Step("avg_speed", "#DC2626", AppStepStops)

getSpeedColorExpression(mode) ==
    IF script = "app.js"
    THEN getSpeedColorExpressionApp(mode)
    ELSE getSpeedColorExpressionViewer(mode)

\* src/unnamed/part_000, getSpeedColorExpression (its aggregated function is
\* app.js's, line for line)
VariantGradientStops ==
    << <<0, "#808080">>, <<2, "#DC2626">>, <<5, "#F97316">>, <<8, "#FACC15">>,
       <<12, "#BEF264">>, <<16, "#4ADE80">>, <<20, "#22C55E">>, <<25, "#059669">> >>
VariantStepStops ==
    << <<2, "#DC2626">>, <<5, "#F97316">>, <<10, "#FACC15">>, <<15, "#BEF264">>,
       <<20, "#4ADE80">>, <<25, "#22C55E">>, <<30, "#059669">> >>
getSpeedColorExpressionVariant(mode) ==
    IF mode = "gradient"
    THEN Interpolate("Speed", VariantGradientStops)
    ELSE Step("Speed", "#808080", VariantStepStops)

Modes == {"gradient", "step"}

(* ------------------- what an expression evaluates to ------------------- *)
\* A property value of a feature: null, or a number.
JsNull == [kind |-> "null", value |-> 0]
Num(v) == [kind |-> "number", value |-> v]

\* ['get', prop]: the value of the property, null when the feature has none
get(feature, prop) ==
    IF prop \in DOMAIN feature THEN feature[prop] ELSE JsNull
\* ['coalesce', v, d]: the first value that is not null
coalesce(v, d) == IF v.kind = "null" THEN d ELSE v
\* ['to-number', v]: null converts to 0
toNumber(v) == IF v.kind = "null" THEN 0 ELSE v.value
\* ['to-number', ['coalesce', ['get', prop], 0]], the input of every colour
\* expression
speedInput(feature, prop) == toNumber(coalesce(get(feature, prop), Num(0)))

\* A colour: one of the table, or a blend of two neighbours.
Solid(c) == [from |-> c, to |-> c, num |-> 0, den |-> 1]
Blend(c1, c2, num, den) ==
    IF num = 0 THEN Solid(c1) ELSE [from |-> c1, to |-> c2, num |-> num, den |-> den]

\* ['interpolate', ['linear'], x, stops]: the first output at or below the
\* first stop, the last at or above the last, linear in between
RECURSIVE interpolateAt(_, _, _)
interpolateAt(stops, x, i) ==
    IF x <= stops[1][1] THEN Solid(stops[1][2])
    ELSE IF i = Len(stops) THEN Solid(stops[i][2])
    ELSE IF x < stops[i + 1][1]
         THEN Blend(stops[i][2], stops[i + 1][2],
                    x - stops[i][1], stops[i + 1][1] - stops[i][1])
         ELSE interpolateAt(stops, x, i + 1)

\* ['step', x, base, stops]: the base output below the first stop, otherwise
\* the output of the last stop that is not above x
RECURSIVE stepAt(_, _, _, _)
stepAt(stops, base, x, i) ==
    IF i > Len(stops) \/ x < stops[i][1] THEN Solid(base)
    ELSE stepAt(stops, stops[i][2], x, i + 1)

\* the line colour the expression gives the feature
evaluate(expr, feature) ==
    IF expr.op = "literal" THEN Solid(expr.base)
    ELSE IF expr.op = "interpolate"
    THEN interpolateAt(expr.stops, speedInput(feature, expr.prop), 1)
    ELSE stepAt(expr.stops, expr.base, speedInput(feature, expr.prop), 1)

(* ------------------------------- views -------------------------------- *)
\* center: CONFIG.MAP_CENTER, zoom: CONFIG.MAP_ZOOM of new mapboxgl.Map
CONFIG_VIEW == [center |-> "MAP_CENTER", zoom |-> 11]
\* map.setCenter([4.9041, 52.3676]); map.setZoom(13)
TRIPS_VIEW == [center |-> "Amsterdam", zoom |-> 13]
\* map.jumpTo({ center, zoom: 10 }) with the centre of the header's bounds
WIDE_VIEW == [center |-> "header", zoom |-> 10]
\* where the user can pan and zoom the map to
UserViews == {[center |-> "elsewhere", zoom |-> z] : z \in {12, 15}}

\* originalCenter / originalZoom before loadAllTripData has run
NoView == [center |-> null, zoom |-> 0]
\* the summary panel before the timer callback has filled it
NoSummary == [shown |-> FALSE, distance |-> 0, time |-> 0]
\* no popup is open
NoPopup == [open |-> FALSE, layer |-> null, source |-> null,
            distance |-> 0, time |-> 0]

(* ------------------------------ start-up ------------------------------ *)
\* CONFIG.MAPBOX_TOKEN: not set, empty, the placeholder of the template, set
NO_TOKEN == "undefined"
EMPTY_TOKEN == ""
PLACEHOLDER_TOKEN == "YOUR_MAPBOX_TOKEN_HERE"
VALID_TOKEN == "pk.token"
Tokens == {NO_TOKEN, EMPTY_TOKEN, PLACEHOLDER_TOKEN, VALID_TOKEN}
\* !CONFIG.MAPBOX_TOKEN || CONFIG.MAPBOX_TOKEN === 'YOUR_MAPBOX_TOKEN_HERE'
TokenNotSet(token) ==
    token \in {NO_TOKEN, EMPTY_TOKEN} \/ token = PLACEHOLDER_TOKEN

\* before the script runs
NotStarted(token) ==
    [token |-> token, alerts |-> 0, map |-> FALSE, listeners |-> {}]
\* the script has run: alert when the token is not set, new mapboxgl.Map,
\* map.on('error'), map.on('load')
Started(token) ==
    [token |-> token, alerts |-> IF TokenNotSet(token) THEN 1 ELSE 0,
     map |-> TRUE, listeners |-> {"error", "load"}]

\* no function is being evaluated by itself
NoInput == [fn |-> null]
NoOutput == [done |-> FALSE]

(* --------------------------- initial state ---------------------------- *)
\* decimal digits of a non-negative integer, as the value of an input element
RECURSIVE DigitsOf(_)
DigitsOf(k) == IF k < 10 THEN <<k>> ELSE Append(DigitsOf(k \div 10), k % 10)

\* The page as served: the controls agree with the variables' initial values
\* and with the paint the layers are created with.
InitDom ==
    [ speedColorsCheckbox   |-> FALSE,
      speedSegmentsCheckbox |-> FALSE,
      tripsCheckbox         |-> TRUE,
      aggregatedCheckbox    |-> FALSE,
      speedModeRadio        |-> "gradient",
      tripFilter            |-> "all",
      tripFilterOptions     |-> {"all"},
      minSamplesSlider      |-> DigitsOf(1),
      minSamplesValue       |-> DigitsOf(1),
      speedLegend           |-> "none",
      speedModeGroup        |-> "none",
      selectedTripRow       |-> "none",
      statTrips             |-> 0,
      statAvgSpeed          |-> "" ]

\* a start-up that calls map.addSource('trips') before 'load' has fired
InitSourceEarly ==
    /\ script \in {"app.js", "generate-config.js"}
    /\ pcLoad = "init"
    /\ pcAgg = "idle"
    /\ pcStats = "idle"
    /\ sources = {"trips"}
    /\ style = EmptyMap
    /\ bound = {}
    /\ tripLayers = <<>>
    /\ speedMode = "gradient"
    /\ showSpeedColors = FALSE
    /\ selectedTrip = null
    /\ allTripData = EmptyMap
    /\ dom = InitDom
    /\ logged = {}
    /\ failures = 0
    /\ lastClick = "none"
    /\ view = CONFIG_VIEW
    /\ originalView = NoView
    /\ summary = NoSummary
    /\ popup = NoPopup
    /\ startup = Started(VALID_TOKEN)
    /\ input = NoInput
    /\ output = NoOutput

\* the variables of the two programs, the script run up to `pc`
ProgramState(pc, st) ==
    /\ script \in {"app.js", "generate-config.js"}
    /\ pcLoad = pc
    /\ startup = st
    /\ pcAgg = "idle"
    /\ pcStats = "idle"
    /\ sources = {}
    /\ style = EmptyMap
    /\ bound = {}
    /\ tripLayers = <<>>
    /\ speedMode = "gradient"
    /\ showSpeedColors = FALSE
    /\ selectedTrip = null
    /\ allTripData = EmptyMap
    /\ dom = InitDom
    /\ logged = {}
    /\ failures = 0
    /\ lastClick = "none"
    /\ view = CONFIG_VIEW
    /\ originalView = NoView
    /\ summary = NoSummary
    /\ popup = NoPopup

\* after construction: the script has run with a valid token and waits for
\* the map's 'load'
ProgramInit == ProgramState("init", Started(VALID_TOKEN))

Init == ProgramInit /\ input = NoInput /\ output = NoOutput

(* ---------------------- restyle calls that throw ---------------------- *)
\* What can throw during one event: nothing, or the restyle calls on one trip
\* layer.  Only generate-config.js has code for that case (the try/catch of
\* its click listeners).
FailSets ==
    IF script = "generate-config.js" /\ failures < MaxFailures
    THEN {{}} \cup {{id} : id \in Range(tripLayers)}
    ELSE {{}}

\* index of the first layer of tripLayers in F (Len + 1 when there is none):
\* where an unguarded tripLayers.forEach stops
FirstFail(F) ==
    IF \E i \in 1..Len(tripLayers) : tripLayers[i] \in F
    THEN CHOOSE i \in 1..Len(tripLayers) :
            /\ tripLayers[i] \in F
            /\ \A j \in 1..(i - 1) : tripLayers[j] \notin F
    ELSE Len(tripLayers) + 1
\* the layers an unguarded forEach gets through before the exception leaves it
Restyled(F) == {tripLayers[i] : i \in 1..(FirstFail(F) - 1)}
\* the layer whose call threw
Thrower(F) ==
    IF FirstFail(F) <= Len(tripLayers) THEN {tripLayers[FirstFail(F)]} ELSE {}

TripPaint(color, width, opacity) ==
    [color |-> color, width |-> width, opacity |-> opacity,
     visibility |-> "visible", filter |-> <<>>]

(* -------------- generate-config.js: the 'load' handler ---------------- *)
Viewer == script = "generate-config.js"
App == script = "app.js"

\* map 'load' fires; the handler runs up to `await p.getMetadata()`
viewerLoad ==
    /\ Viewer
    /\ pcLoad = "init"
    /\ pcLoad' = "getMetadata"
    /\ UNCHANGED <<startup, input, output, view, originalView, summary, popup,
                   script, pcAgg, pcStats, sources, style, bound, tripLayers, speedMode,
                   showSpeedColors, selectedTrip, allTripData, dom, logged,
                   failures, lastClick>>

\* getMetadata resolved with n declared layers: source, layers, setCenter and
\* setZoom, controls, click handlers, and loadAllTripData (which saves the
\* view it finds) up to `await pmtiles.getHeader()`
viewerMetadataLoaded(n) ==
    /\ Viewer
    /\ pcLoad = "getMetadata"
    /\ tripLayers' = DeclaredLayers(n)
    /\ sources' = sources \cup {"trips"}
    /\ style' = [id \in Range(DeclaredLayers(n)) |->
                    TripPaint(Literal(DEFAULT_COLOR), 3, 70)]
    /\ bound' = bound \cup {"controls", "click"}
    /\ dom' = [dom EXCEPT !.statTrips = n]
    /\ view' = TRIPS_VIEW
    /\ originalView' = view'
    /\ pcStats' = "getHeader"
    /\ pcLoad' = "done"
    /\ UNCHANGED <<startup, input, output, summary, popup,
                   script, pcAgg, speedMode, showSpeedColors, selectedTrip,
                   allTripData, logged, failures, lastClick>>

\* getMetadata rejected: catch, console.error
viewerMetadataFailed ==
    /\ Viewer
    /\ pcLoad = "getMetadata"
    /\ logged' = logged \cup {"trips"}
    /\ pcLoad' = "done"
    /\ UNCHANGED <<startup, input, output, view, originalView, summary, popup,
                   script, pcAgg, pcStats, sources, style, bound, tripLayers, speedMode,
                   showSpeedColors, selectedTrip, allTripData, dom, failures, lastClick>>

(* ---------------- generate-config.js: setupControls ------------------- *)
\* what the listeners of the controls read and write
Ui ==
    [style |-> style, dom |-> dom, speedMode |-> speedMode,
     showSpeedColors |-> showSpeedColors]
\* the listener leaves these in the state u
Apply(u) ==
    /\ style' = u.style
    /\ dom' = u.dom
    /\ speedMode' = u.speedMode
    /\ showSpeedColors' = u.showSpeedColors

\* the display of the legend and of the mode group after the colour toggle
ToggleDisplay(d, checked) ==
    [d EXCEPT !.speedLegend = IF checked THEN "block" ELSE "none",
              !.speedModeGroup = IF checked THEN "block" ELSE "none"]

\* tripLayers.forEach(id => map.setPaintProperty(id, 'line-color', c)) with
\* no guard: an exception on a layer of F leaves the loop and the handler
ColorLoop(st, c, F) ==
    [id \in DOMAIN st |->
        IF id \in Restyled(F) THEN [st[id] EXCEPT !.color = c] ELSE st[id]]

\* the listener of speedColorsCheckbox, the box now `checked`
onSpeedColors(u, checked, F) ==
    LET dom1 == [u.dom EXCEPT !.speedColorsCheckbox = checked]
        c == IF checked THEN getSpeedColorExpression(u.speedMode)
                        ELSE Literal(DEFAULT_COLOR)
    IN  IF "controls" \notin bound
        THEN [u EXCEPT !.dom = dom1]
        ELSE [u EXCEPT
                !.showSpeedColors = checked,
                !.style = ColorLoop(u.style, c, F),
                !.dom = IF Thrower(F) = {} THEN ToggleDisplay(dom1, checked)
                                           ELSE dom1]

\* 'change' of speedColorsCheckbox
speedColorsCheckboxChange(F) ==
    /\ Viewer
    /\ "controls" \notin bound => F = {}
    /\ Apply(onSpeedColors(Ui, ~dom.speedColorsCheckbox, F))
    /\ failures' = failures +
          (IF "controls" \in bound /\ Thrower(F) # {} THEN 1 ELSE 0)
    /\ UNCHANGED <<startup, input, output, view, originalView, summary, popup,
                   script, pcLoad, pcAgg, pcStats, sources, bound, tripLayers,
                   selectedTrip, allTripData, logged, lastClick>>

\* a speedMode listener that recolours the trips whether or not speed colours
\* are on
onViewerSpeedModeAlways(u, m, F) ==
    LET dom1 == [u.dom EXCEPT !.speedModeRadio = m]
    IN  IF "controls" \notin bound
        THEN [u EXCEPT !.dom = dom1]
        ELSE [u EXCEPT
                !.dom = dom1,
                !.speedMode = m,
                !.style = ColorLoop(u.style, getSpeedColorExpression(m), F)]

\* the listener of the speedMode radio buttons, the button m now checked
onViewerSpeedMode(u, m, F) ==
    LET dom1 == [u.dom EXCEPT !.speedModeRadio = m]
    IN  IF "controls" \notin bound
        THEN [u EXCEPT !.dom = dom1]
        ELSE [u EXCEPT
                !.dom = dom1,
                !.speedMode = m,
                !.style = IF u.showSpeedColors
                          THEN ColorLoop(u.style, getSpeedColorExpression(m), F)
                          ELSE u.style]

\* 'change' of a speedMode radio button, value m
viewerSpeedModeChange(m, F) ==
    /\ Viewer
    /\ m # dom.speedModeRadio
    /\ ("controls" \notin bound \/ ~showSpeedColors) => F = {}
    /\ Apply(onViewerSpeedMode(Ui, m, F))
    /\ failures' = failures +
          (IF "controls" \in bound /\ showSpeedColors /\ Thrower(F) # {}
           THEN 1 ELSE 0)
    /\ UNCHANGED <<startup, input, output, view, originalView, summary, popup,
                   script, pcLoad, pcAgg, pcStats, sources, bound, tripLayers,
                   selectedTrip, allTripData, logged, lastClick>>

(* -------------- generate-config.js: setupClickHandlers ---------------- *)
\* The part of the state a click's listeners read and write.
\* `rendered` is what map.queryRenderedFeatures adds up to, for the layers
\* it is asked about.  A popup that is open closes on the click (closeOnClick,
\* the default of new mapboxgl.Popup()); one the click opens stays.
ClickState(rendered) ==
    [selectedTrip |-> selectedTrip, style |-> style,
     row |-> dom.selectedTripRow, thrown |-> {},
     popup |-> NoPopup, rendered |-> rendered, defaultPrevented |-> FALSE]

\* totals that take a cache entry of zero distance for a missing one
tripTotalsNonZero(s, layerId) ==
    IF layerId \in DOMAIN allTripData /\ allTripData[layerId].distance > 0
    THEN [open |-> TRUE, layer |-> layerId, source |-> "cache",
          distance |-> allTripData[layerId].distance,
          time |-> allTripData[layerId].time]
    ELSE [open |-> TRUE, layer |-> layerId, source |-> "query",
          distance |-> IF layerId \in DOMAIN s.rendered
                       THEN s.rendered[layerId].distance ELSE 0,
          time |-> IF layerId \in DOMAIN s.rendered
                   THEN s.rendered[layerId].time ELSE 0]

\* the totals of the popup: the cache entry of the layer when there is
\* one (allTripData[layerId] is an object, truthy whatever it holds),
\* otherwise the sums over the layer's rendered features
tripTotals(s, layerId) ==
    IF layerId \in DOMAIN allTripData
    THEN [open |-> TRUE, layer |-> layerId, source |-> "cache",
          distance |-> allTripData[layerId].distance,
          time |-> allTripData[layerId].time]
    ELSE [open |-> TRUE, layer |-> layerId, source |-> "query",
          distance |-> s.rendered[layerId].distance,
          time |-> s.rendered[layerId].time]

\* tripLayerClick that adds the highlight and leaves the other layers alone
tripLayerClickAdds(s, layerId, F) ==
    [s EXCEPT
        !.defaultPrevented = TRUE,
        !.selectedTrip = layerId,
        !.style = [id \in DOMAIN s.style |->
                     IF id = layerId /\ id \notin F
                     THEN [s.style[id] EXCEPT !.opacity = 100, !.width = 4]
                     ELSE s.style[id]],
        !.row = "flex",
        !.thrown = s.thrown \cup (F \cap DOMAIN s.style),
        !.popup = tripTotals(s, layerId)]

\* tripLayerClick that gives the other layers the default paint, not the faded
tripLayerClickNoFade(s, layerId, F) ==
    [s EXCEPT
        !.defaultPrevented = TRUE,
        !.selectedTrip = layerId,
        !.style = [id \in DOMAIN s.style |->
                     IF id \in F THEN s.style[id]
                     ELSE IF id = layerId
                          THEN [s.style[id] EXCEPT !.opacity = 100, !.width = 4]
                          ELSE [s.style[id] EXCEPT !.opacity = 70, !.width = 3]],
        !.row = "flex",
        !.thrown = s.thrown \cup (F \cap DOMAIN s.style),
        !.popup = tripTotals(s, layerId)]

\* tripLayerClick without e.preventDefault()
tripLayerClickNoPrevent(s, layerId, F) ==
    [s EXCEPT
        !.selectedTrip = layerId,
        !.style = [id \in DOMAIN s.style |->
                     IF id \in F THEN s.style[id]
                     ELSE IF id = layerId
                          THEN [s.style[id] EXCEPT !.opacity = 100, !.width = 4]
                          ELSE [s.style[id] EXCEPT !.opacity = 15, !.width = 2]],
        !.row = "flex",
        !.thrown = s.thrown \cup (F \cap DOMAIN s.style),
        !.popup = tripTotals(s, layerId)]

\* map.on('click', layerId, ...): prevent the default, select layerId,
\* highlight it, fade the
\* others (each layer inside its own try/catch), show the detail row, work
\* out the totals of the popup
tripLayerClick(s, layerId, F) ==
    [s EXCEPT
        !.defaultPrevented = TRUE,
        !.selectedTrip = layerId,
        !.style = [id \in DOMAIN s.style |->
                     IF id \in F THEN s.style[id]
                     ELSE IF id = layerId
                          THEN [s.style[id] EXCEPT !.opacity = 100, !.width = 4]
                          ELSE [s.style[id] EXCEPT !.opacity = 15, !.width = 2]],
        !.row = "flex",
        !.thrown = s.thrown \cup (F \cap DOMAIN s.style),
        !.popup = tripTotals(s, layerId)]

\* backgroundClick that restores only the layer that was selected
backgroundClickSelectedOnly(s, defaultPrevented, F) ==
    IF ~defaultPrevented /\ s.selectedTrip # null
    THEN [s EXCEPT
            !.selectedTrip = null,
            !.style = [id \in DOMAIN s.style |->
                         IF id \in F \/ id # s.selectedTrip THEN s.style[id]
                         ELSE [s.style[id] EXCEPT !.opacity = 70, !.width = 3]],
            !.row = "none",
            !.thrown = s.thrown \cup (F \cap DOMAIN s.style)]
    ELSE s

\* backgroundClick without the test of selectedTrip
backgroundClickAlways(s, defaultPrevented, F) ==
    IF ~defaultPrevented
    THEN [s EXCEPT
            !.selectedTrip = null,
            !.style = [id \in DOMAIN s.style |->
                         IF id \in F THEN s.style[id]
                         ELSE [s.style[id] EXCEPT !.opacity = 70, !.width = 3]],
            !.row = "none",
            !.thrown = s.thrown \cup (F \cap DOMAIN s.style)]
    ELSE s

\* map.on('click', ...): reset when the event is not default-prevented and a
\* trip is selected
backgroundClick(s, defaultPrevented, F) ==
    IF ~defaultPrevented /\ s.selectedTrip # null
    THEN [s EXCEPT
            !.selectedTrip = null,
            !.style = [id \in DOMAIN s.style |->
                         IF id \in F THEN s.style[id]
                         ELSE [s.style[id] EXCEPT !.opacity = 70, !.width = 3]],
            !.row = "none",
            !.thrown = s.thrown \cup (F \cap DOMAIN s.style)]
    ELSE s

\* the layer listeners of the layers hit, in the order setupClickHandlers
\* registered them (the order of tripLayers)
RECURSIVE LayerListeners(_, _, _, _)
LayerListeners(s, i, hit, F) ==
    IF i > Len(tripLayers) THEN s
    ELSE LayerListeners(IF tripLayers[i] \in hit
                        THEN tripLayerClick(s, tripLayers[i], F) ELSE s,
                        i + 1, hit, F)

\* what a click is: on the background with or without a selection to reset,
\* or on trip features, replacing the selection by another trip or not
ClickKind(hit, before, after) ==
    IF hit = {} THEN (IF before # null THEN "reset" ELSE "noop")
    ELSE IF before # null /\ after # before THEN "replace" ELSE "select"

\* One click on the map, at a point with features of the layers `hit` (none:
\* the background).  The layer listeners run first, then the general
\* listener, all on the same event object, whose defaultPrevented the
\* general listener reads.
mapClick(hit, F, rendered) ==
    /\ Viewer
    /\ "click" \in bound
    /\ LET s1 == LayerListeners(ClickState(rendered), 1, hit, F)
           s2 == backgroundClick(s1, s1.defaultPrevented, F)
       IN  /\ selectedTrip' = s2.selectedTrip
           /\ style' = s2.style
           /\ dom' = [dom EXCEPT !.selectedTripRow = s2.row]
           /\ failures' = failures + (IF s2.thrown # {} THEN 1 ELSE 0)
           /\ lastClick' = ClickKind(hit, selectedTrip, s2.selectedTrip)
           /\ popup' = s2.popup
    /\ UNCHANGED <<startup, input, output, view, originalView, summary,
                   script, pcLoad, pcAgg, pcStats, sources, bound, tripLayers, speedMode,
                   showSpeedColors, allTripData, logged>>

(* ---------------- generate-config.js: loadAllTripData ----------------- *)
\* per-trip totals the rendered features can add up to
Totals == {[distance |-> 0, time |-> 0], [distance |-> 12345, time |-> 1830]}

\* the sums over all trips of the timer callback
RECURSIVE SumOver(_, _, _)
SumOver(totals, field, i) ==
    IF i > Len(tripLayers) THEN 0
    ELSE totals[tripLayers[i]][field] + SumOver(totals, field, i + 1)

\* getHeader resolved: jumpTo the wide view, setTimeout
statsHeaderLoaded ==
    /\ Viewer
    /\ pcStats = "getHeader"
    /\ pcStats' = "timer"
    /\ view' = WIDE_VIEW
    /\ UNCHANGED <<startup, input, output, originalView, summary, popup,
                   script, pcLoad, pcAgg, sources, style, bound, tripLayers, speedMode,
                   showSpeedColors, selectedTrip, allTripData, dom, logged,
                   failures, lastClick>>

\* getHeader rejected: catch, console.error
statsHeaderFailed ==
    /\ Viewer
    /\ pcStats = "getHeader"
    /\ pcStats' = "failed"
    /\ logged' = logged \cup {"tripData"}
    /\ UNCHANGED <<startup, input, output, view, originalView, summary, popup,
                   script, pcLoad, pcAgg, sources, style, bound, tripLayers, speedMode,
                   showSpeedColors, selectedTrip, allTripData, dom,
                   failures, lastClick>>

\* a timer callback that leaves the map in the view it finds
statsTimerKeepsView(totals) ==
    /\ Viewer
    /\ pcStats = "timer"
    /\ allTripData' = totals
    /\ summary' = [shown |-> TRUE,
                   distance |-> SumOver(totals, "distance", 1),
                   time |-> SumOver(totals, "time", 1)]
    /\ pcStats' = "done"
    /\ UNCHANGED <<startup, input, output, view, originalView, popup,
                   script, pcLoad, pcAgg, sources, style, bound, tripLayers,
                   speedMode, showSpeedColors, selectedTrip, dom, logged,
                   failures, lastClick>>

\* the timer callback: one cache entry per trip layer, from what is rendered
\* (`totals`); the summary panel; back to the view saved at the start
statsTimer(totals) ==
    /\ Viewer
    /\ pcStats = "timer"
    /\ allTripData' = totals
    /\ summary' = [shown |-> TRUE,
                   distance |-> SumOver(totals, "distance", 1),
                   time |-> SumOver(totals, "time", 1)]
    /\ view' = originalView
    /\ pcStats' = "done"
    /\ UNCHANGED <<startup, input, output, originalView, popup,
                   script, pcLoad, pcAgg, sources, style, bound, tripLayers, speedMode,
                   showSpeedColors, selectedTrip, dom, logged,
                   failures, lastClick>>

\* the timer of setTimeout(..., 1500) fires, with whatever is rendered then
timerFires == \E totals \in [Range(tripLayers) -> Totals] : statsTimer(totals)

\* the user pans and zooms the map of the viewer to the view v
userMoves(v) ==
    /\ Viewer
    /\ view # v
    /\ view' = v
    /\ UNCHANGED <<startup, input, output, originalView, summary, popup,
                   script, pcLoad, pcAgg, pcStats, sources, style, bound,
                   tripLayers, speedMode, showSpeedColors, selectedTrip,
                   allTripData, dom, logged, failures, lastClick>>

(* ---------------------- app.js: the 'load' handler -------------------- *)
\* updateStats(): the trip count of the filter; the average is a dash
updateStats(d, layers) ==
    [d EXCEPT !.statTrips = IF d.tripFilter = "all" THEN Len(layers) ELSE 1,
              !.statAvgSpeed = "-"]

\* a 'load' handler that starts the two fetches together
appLoadBothFetches ==
    /\ App
    /\ pcLoad = "init"
    /\ sources' = sources \cup {"trips"}
    /\ pcLoad' = "tripFetch"
    /\ pcAgg' = "fetch"
    /\ UNCHANGED <<startup, input, output, view, originalView, summary, popup,
                   script, pcStats, style, bound, tripLayers, speedMode,
                   showSpeedColors, selectedTrip, allTripData, dom, logged,
                   failures, lastClick>>

\* map 'load' fires: addSource('trips'), then `await fetch(PMTILES_URL)`
appLoad ==
    /\ App
    /\ pcLoad = "init"
    /\ sources' = sources \cup {"trips"}
    /\ pcLoad' = "tripFetch"
    /\ UNCHANGED <<startup, input, output, view, originalView, summary, popup,
                   script, pcAgg, pcStats, style, bound, tripLayers, speedMode,
                   showSpeedColors, selectedTrip, allTripData, dom, logged,
                   failures, lastClick>>

\* fetch resolved: `await response.json()`
appTripFetched ==
    /\ App
    /\ pcLoad = "tripFetch"
    /\ pcLoad' = "tripJson"
    /\ UNCHANGED <<startup, input, output, view, originalView, summary, popup,
                   script, pcAgg, pcStats, sources, style, bound, tripLayers,
                   speedMode, showSpeedColors, selectedTrip, allTripData, dom,
                   logged, failures, lastClick>>

\* the TileJSON arrived with n vector_layers: layers, dropdown options,
\* setupTripControls, updateStats; the handler goes on to the second try
\* block and awaits the aggregated fetch
appTripLoaded(n) ==
    /\ App
    /\ pcLoad = "tripJson"
    /\ tripLayers' = DeclaredLayers(n)
    /\ style' = [id \in Range(DeclaredLayers(n)) |->
                    TripPaint(Literal("#FF6600"), 2, 40)]
    /\ bound' = bound \cup {"tripControls"}
    /\ dom' = updateStats(
                [dom EXCEPT !.tripFilterOptions = @ \cup Range(DeclaredLayers(n))],
                DeclaredLayers(n))
    /\ pcLoad' = "done"
    /\ pcAgg' = "fetch"
    /\ UNCHANGED <<startup, input, output, view, originalView, summary, popup,
                   script, pcStats, sources, speedMode, showSpeedColors,
                   selectedTrip, allTripData, logged, failures, lastClick>>

\* a trip failure caught by one try block around both loads: the handler ends
appTripFailedEndsHandler ==
    /\ App
    /\ pcLoad \in {"tripFetch", "tripJson"}
    /\ logged' = logged \cup {"trips"}
    /\ pcLoad' = "done"
    /\ pcAgg' = "done"
    /\ UNCHANGED <<startup, input, output, view, originalView, summary, popup,
                   script, pcStats, sources, style, bound, tripLayers, speedMode,
                   showSpeedColors, selectedTrip, allTripData, dom,
                   failures, lastClick>>

\* the trip fetch or its parse failed: catch, console.error; the handler goes
\* on to the second try block and awaits the aggregated fetch
appTripFailed ==
    /\ App
    /\ pcLoad \in {"tripFetch", "tripJson"}
    /\ logged' = logged \cup {"trips"}
    /\ pcLoad' = "done"
    /\ pcAgg' = "fetch"
    /\ UNCHANGED <<startup, input, output, view, originalView, summary, popup,
                   script, pcStats, sources, style, bound, tripLayers, speedMode,
                   showSpeedColors, selectedTrip, allTripData, dom, failures, lastClick>>

\* aggregated fetch resolved: `await response.json()`
appAggFetched ==
    /\ App
    /\ pcAgg = "fetch"
    /\ pcAgg' = "json"
    /\ UNCHANGED <<startup, input, output, view, originalView, summary, popup,
                   script, pcLoad, pcStats, sources, style, bound, tripLayers,
                   speedMode, showSpeedColors, selectedTrip, allTripData, dom,
                   logged, failures, lastClick>>

\* the GeoJSON arrived: addSource, addLayer (hidden, 'gradient' colours),
\* setupAggregatedControls
appAggLoaded ==
    /\ App
    /\ pcAgg = "json"
    /\ sources' = sources \cup {"aggregated-routes"}
    /\ style' = [id \in DOMAIN style \cup {AGG_LAYER} |->
                    IF id = AGG_LAYER
                    THEN [color |-> getAggregatedSpeedColorExpression("gradient"),
                          width |-> 4, opacity |-> 80,
                          visibility |-> "none", filter |-> <<>>]
                    ELSE style[id]]
    /\ bound' = bound \cup {"aggregatedControls"}
    /\ pcAgg' = "done"
    /\ UNCHANGED <<startup, input, output, view, originalView, summary, popup,
                   script, pcLoad, pcStats, tripLayers, speedMode,
                   showSpeedColors, selectedTrip, allTripData, dom, logged,
                   failures, lastClick>>

\* the aggregated fetch or its parse failed: catch, console.error
appAggFailed ==
    /\ App
    /\ pcAgg \in {"fetch", "json"}
    /\ logged' = logged \cup {"aggregated"}
    /\ pcAgg' = "done"
    /\ UNCHANGED <<startup, input, output, view, originalView, summary, popup,
                   script, pcLoad, pcStats, sources, style, bound, tripLayers,
                   speedMode, showSpeedColors, selectedTrip, allTripData, dom,
                   failures, lastClick>>

(* ---------------------- app.js: setupTripControls --------------------- *)
\* the restyle of one layer by the trip filter
FilterPaint(p, id, v) ==
    IF v = "all" THEN [p EXCEPT !.visibility = "visible", !.opacity = 40]
    ELSE IF id = v THEN [p EXCEPT !.visibility = "visible", !.opacity = 90]
    ELSE [p EXCEPT !.visibility = "none"]

\* the listener of the tripFilter dropdown, the option v now chosen
onTripFilter(u, v) ==
    LET dom1 == [u.dom EXCEPT !.tripFilter = v]
    IN  IF "tripControls" \notin bound
        THEN [u EXCEPT !.dom = dom1]
        ELSE [u EXCEPT
                !.style = [id \in DOMAIN u.style |->
                             IF id \in Range(tripLayers)
                             THEN FilterPaint(u.style[id], id, v)
                             ELSE u.style[id]],
                !.dom = updateStats(dom1, tripLayers)]

\* 'change' of the tripFilter dropdown to option v
tripFilterChange(v) ==
    /\ App
    /\ v \in dom.tripFilterOptions
    /\ v # dom.tripFilter
    /\ Apply(onTripFilter(Ui, v))
    /\ UNCHANGED <<startup, input, output, view, originalView, summary, popup,
                   script, pcLoad, pcAgg, pcStats, sources, bound, tripLayers,
                   selectedTrip, allTripData, logged, failures, lastClick>>

\* a tripsCheckbox listener that removes the layers when unchecked
tripsCheckboxChangeRemoves ==
    /\ App
    /\ LET checked == ~dom.tripsCheckbox
           touched == {id \in Range(tripLayers) :
                          dom.tripFilter = "all" \/ id = dom.tripFilter}
       IN  /\ dom' = [dom EXCEPT !.tripsCheckbox = checked]
           /\ IF "tripControls" \notin bound \/ checked
              THEN UNCHANGED style
              ELSE style' = [id \in DOMAIN style \ touched |-> style[id]]
    /\ UNCHANGED <<startup, input, output, view, originalView, summary, popup,
                   script, pcLoad, pcAgg, pcStats, sources, bound, tripLayers,
                   speedMode, showSpeedColors, selectedTrip, allTripData, logged,
                   failures, lastClick>>

\* a tripsCheckbox listener that flips the visibility the layers have
onTripsCheckboxFlips(u, checked) ==
    LET touched == {id \in Range(tripLayers) :
                       u.dom.tripFilter = "all" \/ id = u.dom.tripFilter}
        dom1 == [u.dom EXCEPT !.tripsCheckbox = checked]
    IN  IF "tripControls" \notin bound
        THEN [u EXCEPT !.dom = dom1]
        ELSE [u EXCEPT
                !.dom = dom1,
                !.style = [id \in DOMAIN u.style |->
                             IF id \in touched
                             THEN [u.style[id] EXCEPT !.visibility =
                                     IF @ = "visible" THEN "none" ELSE "visible"]
                             ELSE u.style[id]]]

\* the listener of tripsCheckbox, the box now `checked`: only the layers the
\* filter admits get a call
onTripsCheckbox(u, checked) ==
    LET visibility == IF checked THEN "visible" ELSE "none"
        touched == {id \in Range(tripLayers) :
                       u.dom.tripFilter = "all" \/ id = u.dom.tripFilter}
        dom1 == [u.dom EXCEPT !.tripsCheckbox = checked]
    IN  IF "tripControls" \notin bound
        THEN [u EXCEPT !.dom = dom1]
        ELSE [u EXCEPT
                !.dom = dom1,
                !.style = [id \in DOMAIN u.style |->
                             IF id \in touched
                             THEN [u.style[id] EXCEPT !.visibility = visibility]
                             ELSE u.style[id]]]

\* 'change' of tripsCheckbox
tripsCheckboxChange ==
    /\ App
    /\ Apply(onTripsCheckbox(Ui, ~dom.tripsCheckbox))
    /\ UNCHANGED <<startup, input, output, view, originalView, summary, popup,
                   script, pcLoad, pcAgg, pcStats, sources, bound, tripLayers,
                   selectedTrip, allTripData, logged, failures, lastClick>>

\* the listener of speedSegmentsCheckbox, the box now `checked`
onSpeedSegments(u, checked) ==
    LET dom1 == [u.dom EXCEPT !.speedSegmentsCheckbox = checked]
        c == IF checked THEN getSpeedColorExpression(u.speedMode)
                        ELSE Literal("#FF6600")
        w == IF checked THEN 3 ELSE 2
    IN  IF "tripControls" \notin bound
        THEN [u EXCEPT !.dom = dom1]
        ELSE [u EXCEPT
                !.style = [id \in DOMAIN u.style |->
                             IF id \in Range(tripLayers)
                             THEN [u.style[id] EXCEPT !.color = c, !.width = w]
                             ELSE u.style[id]],
                !.dom = [dom1 EXCEPT !.speedLegend =
                            IF checked THEN "block" ELSE "none"]]

\* 'change' of speedSegmentsCheckbox
speedSegmentsCheckboxChange ==
    /\ App
    /\ Apply(onSpeedSegments(Ui, ~dom.speedSegmentsCheckbox))
    /\ UNCHANGED <<startup, input, output, view, originalView, summary, popup,
                   script, pcLoad, pcAgg, pcStats, sources, bound, tripLayers,
                   selectedTrip, allTripData, logged, failures, lastClick>>

\* the listener of the speedMode radio buttons, the button m now checked: the
\* trip layers when speed segments are on, then the aggregated layer when its
\* checkbox is checked (a call for a layer the map does not have changes
\* nothing)
onAppSpeedMode(u, m) ==
    LET dom1 == [u.dom EXCEPT !.speedModeRadio = m]
    IN  IF "tripControls" \notin bound
        THEN [u EXCEPT !.dom = dom1]
        ELSE [u EXCEPT
                !.dom = dom1,
                !.speedMode = m,
                !.style = [id \in DOMAIN u.style |->
                    IF id \in Range(tripLayers) /\ u.dom.speedSegmentsCheckbox
                    THEN [u.style[id] EXCEPT
                            !.color = getSpeedColorExpression(m)]
                    ELSE IF id = AGG_LAYER /\ u.dom.aggregatedCheckbox
                    THEN [u.style[id] EXCEPT
                            !.color = getAggregatedSpeedColorExpression(m)]
                    ELSE u.style[id]]]

\* 'change' of a speedMode radio button, value m
appSpeedModeChange(m) ==
    /\ App
    /\ m # dom.speedModeRadio
    /\ Apply(onAppSpeedMode(Ui, m))
    /\ UNCHANGED <<startup, input, output, view, originalView, summary, popup,
                   script, pcLoad, pcAgg, pcStats, sources, bound, tripLayers,
                   selectedTrip, allTripData, logged, failures, lastClick>>

(* -------------------- app.js: setupAggregatedControls ----------------- *)
\* the aggregated checkbox handler that keeps the colours the layer was
\* created with
aggregatedCheckboxChangeStale ==
    /\ App
    /\ LET checked == ~dom.aggregatedCheckbox
           dom1 == [dom EXCEPT !.aggregatedCheckbox = checked]
       IN  IF "aggregatedControls" \notin bound
           THEN dom' = dom1 /\ UNCHANGED style
           ELSE /\ style' = [style EXCEPT ![AGG_LAYER].visibility =
                                IF checked THEN "visible" ELSE "none"]
                /\ dom' = IF checked THEN [dom1 EXCEPT !.speedLegend = "block"]
                                     ELSE dom1
    /\ UNCHANGED <<startup, input, output, view, originalView, summary, popup,
                   script, pcLoad, pcAgg, pcStats, sources, bound, tripLayers,
                   speedMode, showSpeedColors, selectedTrip, allTripData, logged,
                   failures, lastClick>>

\* the listener of aggregatedCheckbox, the box now `checked`: visibility, and
\* when checked the colours of the radio button that is checked now, and the
\* legend
onAggregatedCheckbox(u, checked) ==
    LET dom1 == [u.dom EXCEPT !.aggregatedCheckbox = checked]
        currentMode == u.dom.speedModeRadio
    IN  IF "aggregatedControls" \notin bound
        THEN [u EXCEPT !.dom = dom1]
        ELSE [u EXCEPT
                !.style =
                    IF checked
                    THEN [u.style EXCEPT
                            ![AGG_LAYER].visibility = "visible",
                            ![AGG_LAYER].color =
                                getAggregatedSpeedColorExpression(currentMode)]
                    ELSE [u.style EXCEPT ![AGG_LAYER].visibility = "none"],
                !.dom = IF checked THEN [dom1 EXCEPT !.speedLegend = "block"]
                                   ELSE dom1]

\* 'change' of aggregatedCheckbox
aggregatedCheckboxChange ==
    /\ App
    /\ Apply(onAggregatedCheckbox(Ui, ~dom.aggregatedCheckbox))
    /\ UNCHANGED <<startup, input, output, view, originalView, summary, popup,
                   script, pcLoad, pcAgg, pcStats, sources, bound, tripLayers,
                   selectedTrip, allTripData, logged, failures, lastClick>>

\* parseInt of a string of decimal digits
RECURSIVE parseInt(_)
parseInt(digits) ==
    IF Len(digits) = 1 THEN digits[1]
    ELSE 10 * parseInt(SubSeq(digits, 1, Len(digits) - 1)) + digits[Len(digits)]

\* the values the slider can take
SliderValues == (1..MaxSlider) \cup {10}

\* the slider handler with a strict comparison
minSamplesSliderInputStrict(k) ==
    /\ App
    /\ DigitsOf(k) # dom.minSamplesSlider
    /\ LET dom1 == [dom EXCEPT !.minSamplesSlider = DigitsOf(k)]
           minSamples == parseInt(dom1.minSamplesSlider)
       IN  IF "aggregatedControls" \notin bound
           THEN dom' = dom1 /\ UNCHANGED style
           ELSE /\ dom' = [dom1 EXCEPT !.minSamplesValue = DigitsOf(minSamples)]
                /\ style' = [style EXCEPT ![AGG_LAYER].filter =
                                <<">", "sample_count", minSamples>>]
    /\ UNCHANGED <<startup, input, output, view, originalView, summary, popup,
                   script, pcLoad, pcAgg, pcStats, sources, bound, tripLayers,
                   speedMode, showSpeedColors, selectedTrip, allTripData, logged,
                   failures, lastClick>>

\* the listener of minSamplesSlider, its value now the digits of k
onMinSamples(u, k) ==
    LET dom1 == [u.dom EXCEPT !.minSamplesSlider = DigitsOf(k)]
        minSamples == parseInt(dom1.minSamplesSlider)
    IN  IF "aggregatedControls" \notin bound
        THEN [u EXCEPT !.dom = dom1]
        ELSE [u EXCEPT
                !.dom = [dom1 EXCEPT !.minSamplesValue = DigitsOf(minSamples)],
                !.style = [u.style EXCEPT ![AGG_LAYER].filter =
                              <<">=", "sample_count", minSamples>>]]

\* 'input' of minSamplesSlider, moved to the value k
minSamplesSliderInput(k) ==
    /\ App
    /\ DigitsOf(k) # dom.minSamplesSlider
    /\ Apply(onMinSamples(Ui, k))
    /\ UNCHANGED <<startup, input, output, view, originalView, summary, popup,
                   script, pcLoad, pcAgg, pcStats, sources, bound, tripLayers,
                   selectedTrip, allTripData, logged, failures, lastClick>>

(* ------------------------------- Next --------------------------------- *)
Next ==
    \/ viewerLoad
    \/ \E n \in 0..MaxTrips : viewerMetadataLoaded(n)
    \/ viewerMetadataFailed
    \/ \E F \in FailSets : speedColorsCheckboxChange(F)
    \/ \E m \in Modes, F \in FailSets : viewerSpeedModeChange(m, F)
    \/ \E hit \in SUBSET Range(tripLayers), F \in FailSets :
          \E rendered \in [hit \ DOMAIN allTripData -> Totals] :
             mapClick(hit, F, rendered)
    \/ statsHeaderLoaded
    \/ statsHeaderFailed
    \/ timerFires
    \/ appLoad
    \/ appTripFetched
    \/ \E n \in 0..MaxTrips : appTripLoaded(n)
    \/ appTripFailed
    \/ appAggFetched
    \/ appAggLoaded
    \/ appAggFailed
    \/ \E v \in dom.tripFilterOptions : tripFilterChange(v)
    \/ tripsCheckboxChange
    \/ speedSegmentsCheckboxChange
    \/ \E m \in Modes : appSpeedModeChange(m)
    \/ aggregatedCheckboxChange
    \/ \E k \in SliderValues : minSamplesSliderInput(k)

Spec == Init /\ [][Next]_vars

(* ------------------------ the start-up of app.js ----------------------- *)
\* a start-up that gives up when the token is not set
startUpStops ==
    /\ App
    /\ pcLoad = "start"
    /\ startup' = IF TokenNotSet(startup.token)
                  THEN [startup EXCEPT !.alerts = @ + 1]
                  ELSE Started(startup.token)
    /\ logged' = IF TokenNotSet(startup.token)
                 THEN logged \cup {"token"} ELSE logged
    /\ pcLoad' = "init"
    /\ UNCHANGED <<input, output, view, originalView, summary, popup,
                   script, pcAgg, pcStats, sources, style, bound, tripLayers,
                   speedMode, showSpeedColors, selectedTrip, allTripData, dom,
                   failures, lastClick>>

\* the script runs: the token check (alert and console.error, nothing more),
\* the map, its 'error' and 'load' listeners
startUp ==
    /\ App
    /\ pcLoad = "start"
    /\ startup' = Started(startup.token)
    /\ logged' = IF TokenNotSet(startup.token)
                 THEN logged \cup {"token"} ELSE logged
    /\ pcLoad' = "init"
    /\ UNCHANGED <<input, output, view, originalView, summary, popup,
                   script, pcAgg, pcStats, sources, style, bound, tripLayers,
                   speedMode, showSpeedColors, selectedTrip, allTripData, dom,
                   failures, lastClick>>

\* app.js from before the script runs, whatever the token, up to the end of
\* its 'load' handler
InitStartUp ==
    /\ \E token \in Tokens : ProgramState("start", NotStarted(token))
    /\ App
    /\ input = NoInput /\ output = NoOutput

NextStartUp ==
    \/ startUp
    \/ appLoad
    \/ appTripFetched
    \/ \E n \in 0..MaxTrips : appTripLoaded(n)
    \/ appTripFailed
    \/ appAggFetched
    \/ appAggLoaded
    \/ appAggFailed
    \/ tripsCheckboxChange
    \/ aggregatedCheckboxChange

SpecStartUp == InitStartUp /\ [][NextStartUp]_vars

(* --------------- the statistics of the viewer, by themselves ----------- *)
\* The viewer with a user who also pans and zooms, without the colour
\* controls and with no restyle call throwing.  A timer that is set fires.
InitStats == Init /\ Viewer

NextStats ==
    \/ viewerLoad
    \/ \E n \in 0..MaxTrips : viewerMetadataLoaded(n)
    \/ viewerMetadataFailed
    \/ \E hit \in SUBSET Range(tripLayers) :
          \E rendered \in [hit \ DOMAIN allTripData -> Totals] :
             mapClick(hit, {}, rendered)
    \/ statsHeaderLoaded
    \/ statsHeaderFailed
    \/ timerFires
    \/ \E v \in UserViews : userMoves(v)

SpecStats == InitStats /\ [][NextStats]_vars /\ WF_vars(timerFires)

(* ----------------------- formatting of the totals --------------------- *)
\* Totals are a whole number of metres and a whole number of half seconds.
\* A JavaScript number is a binary double: num / den is the nearest number
\* with 53 significant bits.

RECURSIVE BitLength(_)
BitLength(n) == IF n = 0 THEN 0 ELSE 1 + BitLength(n \div 2)

\* k more bits of the binary expansion of r / den (r < den): what is left
\* over, and the last bit written
RECURSIVE FractionBits(_, _, _, _)
FractionBits(r, den, k, last) ==
    IF k = 0 THEN [r |-> r, last |-> last]
    ELSE FractionBits((2 * r) % den, den, k - 1, (2 * r) \div den)

\* the zero bits before the first one bit of r / den (0 < r < den) skipped
RECURSIVE SkipZeroBits(_, _)
SkipZeroBits(r, den) == IF 2 * r >= den THEN r ELSE SkipZeroBits(2 * r, den)

\* num / den as a double: -1 when the double is below the quotient, 1 when it
\* is above, 0 when the quotient is a double (round to nearest, ties to even)
divisionError(num, den) ==
    LET whole == num \div den
        r0 == num % den
        kept == IF whole > 0
                THEN FractionBits(r0, den, 53 - BitLength(whole), whole % 2)
                ELSE IF r0 = 0 THEN [r |-> 0, last |-> 0]
                ELSE FractionBits(2 * SkipZeroBits(r0, den) - den, den, 52, 1)
    IN  IF kept.r = 0 THEN 0
        ELSE IF 2 * kept.r > den THEN 1
        ELSE IF 2 * kept.r < den THEN 0 - 1
        ELSE IF kept.last = 1 THEN 1 ELSE 0 - 1

RECURSIVE Pow10(_)
Pow10(f) == IF f = 0 THEN 1 ELSE 10 * Pow10(f - 1)

\* the digits of n, at least `width` of them (padStart(width, '0'))
padStart(digits, width) ==
    IF Len(digits) >= width THEN digits
    ELSE [i \in 1..width |->
            IF i <= width - Len(digits) THEN 0
            ELSE digits[i - (width - Len(digits))]]

\* the text of n / 10^f with f decimals
Decimal(n, f) ==
    [whole |-> DigitsOf(n \div Pow10(f)),
     frac |-> IF f = 0 THEN <<>> ELSE padStart(DigitsOf(n % Pow10(f)), f)]

\* x.toFixed(f) for a double x next to the quotient num / den, `error` telling
\* on which side: the number of units of 10^-f nearest to x, the larger one
\* when x is half way
toFixedUnits(num, den, f, error) ==
    LET q == num * Pow10(f)
        lo == q \div den
        rest == q % den
    IN  IF 2 * rest < den THEN lo
        ELSE IF 2 * rest > den THEN lo + 1
        ELSE IF error < 0 THEN lo ELSE lo + 1

\* a toFixed that cuts the decimals off
distanceKmTruncated(d, f) == Decimal((d * Pow10(f)) \div 1000, f)

\* (totalDistance / 1000).toFixed(f)
distanceKm(d, f) == Decimal(toFixedUnits(d, 1000, f, divisionError(d, 1000)), f)

\* totalTime > 0 ? ((totalDistance / 1000) / (totalTime / 3600)).toFixed(1) : 0
\* The quotient is 36 d / 5 t2 for t2 half seconds; when it is half way
\* between two tenths, the three roundings of the doubles decide (`error`).
avgSpeed(d, t2, error) ==
    IF t2 > 0 THEN Decimal(toFixedUnits(36 * d, 5 * t2, 1, error), 1)
    ELSE Decimal(0, 0)

\* Math.round(t) of t2 half seconds
roundSeconds(t2) == (t2 + 1) \div 2

\* the statistics of the popup of a trip click
popupStats(d, t2, error) ==
    [distanceKm |-> distanceKm(d, 2),
     avgSpeed |-> avgSpeed(d, t2, error),
     durationFormatted |->
        [minutes |-> DigitsOf(t2 \div 120),
         seconds |-> padStart(DigitsOf(roundSeconds(t2 % 120)), 2)]]

\* the statistics of the summary panel
summaryStats(d, t2, error) ==
    LET totalHours == t2 \div 7200
        totalMinutes == (t2 % 7200) \div 120
    IN  [statDistance |-> distanceKm(d, 1),
         statAvgSpeed |-> avgSpeed(d, t2, error),
         statTotalTime |->
            [hours |-> IF totalHours > 0 THEN DigitsOf(totalHours) ELSE <<>>,
             minutes |-> DigitsOf(totalMinutes)]]

\* totals formatted: small ones, the totals of the examples, an hour and more
DistanceValues == (0..MaxDistance) \cup {125, 1005, 12345}
HalfSecondValues == (0..MaxHalfSeconds) \cup {3660, 7199, 7200, 7320}

InitFormat ==
    /\ ProgramInit /\ Viewer
    /\ input \in [distance : DistanceValues, time2 : HalfSecondValues,
                   error : {0 - 1, 1}]
    /\ output = NoOutput

\* the totals go through the formatting of the popup and of the summary
formatStats ==
    /\ ~output.done
    /\ output' = [done |-> TRUE,
                  popup |-> popupStats(input.distance, input.time2, input.error),
                  summary |-> summaryStats(input.distance, input.time2,
                                           input.error)]
    /\ UNCHANGED <<startup, input, view, originalView, summary, popup,
                   script, pcLoad, pcAgg, pcStats, sources, style, bound,
                   tripLayers, speedMode, showSpeedColors, selectedTrip,
                   allTripData, dom, logged, failures, lastClick>>

NextFormat == formatStats

SpecFormat == InitFormat /\ [][NextFormat]_vars

(* ------------------ the colour functions, by themselves --------------- *)
\* the colour functions of the three scripts
ColourFunctions ==
    {"viewer", "app", "appAggregated", "variant", "variantAggregated"}
ColourExpression(fn, mode) ==
    CASE fn = "viewer" -> getSpeedColorExpressionViewer(mode)
      [] fn = "app" -> getSpeedColorExpressionApp(mode)
      [] fn = "variant" -> getSpeedColorExpressionVariant(mode)
      [] OTHER -> getAggregatedSpeedColorExpression(mode)

\* the values the speed property of a feature can have
SpeedValues == {JsNull} \cup {Num(v) : v \in (0 - MaxBelowZero)..MaxSpeed}
\* features: without the speed properties, or with both
Features ==
    {EmptyMap} \cup {[p \in {"Speed", "avg_speed"} |-> v] : v \in SpeedValues}
FeatureWithSpeed(v) == [p \in {"Speed", "avg_speed"} |-> Num(v)]

InitColour ==
    /\ ProgramInit
    /\ input \in [fn : ColourFunctions, mode : Modes, feature : Features]
    /\ output = NoOutput

\* the map paints the feature with the expression of the function
paintFeature ==
    /\ ~output.done
    /\ output' = [done |-> TRUE,
                  colour |-> evaluate(ColourExpression(input.fn, input.mode),
                                      input.feature)]
    /\ UNCHANGED <<startup, input, view, originalView, summary, popup,
                   script, pcLoad, pcAgg, pcStats, sources, style, bound,
                   tripLayers, speedMode, showSpeedColors, selectedTrip,
                   allTripData, dom, logged, failures, lastClick>>

NextColour == paintFeature

SpecColour == InitColour /\ [][NextColour]_vars

(* ====================== selection and highlight ======================= *)
HasPaint(st, id, opacity, width) ==
    st[id].opacity = opacity /\ st[id].width = width
Highlighted(st, id) == HasPaint(st, id, 100, 4)
Faded(st, id) == HasPaint(st, id, 15, 2)
DefaultPaint(st, id) == HasPaint(st, id, 70, 3)
TripIds == Range(tripLayers)

\* C1: with no restyle call failing, the selected trip layer is highlighted
\* and every other trip layer is faded; at most one trip layer is highlighted.
C1_SelectionExclusive ==
    (Viewer /\ failures = 0) =>
        /\ Cardinality({id \in TripIds : Highlighted(style, id)}) <= 1
        /\ selectedTrip # null =>
              /\ selectedTrip \in TripIds
              /\ Highlighted(style, selectedTrip)
              /\ \A id \in TripIds \ {selectedTrip} : Faded(style, id)
\* a trip was selected by a click, with another trip layer on the map
C1_Witness ==
    /\ Viewer /\ failures = 0 /\ lastClick = "select"
    /\ selectedTrip = TripName(2) /\ Len(tripLayers) >= 2

\* a click that replaces the selection A by another trip B, nothing failing
Replaces ==
    /\ Viewer /\ failures' = 0
    /\ selectedTrip # null /\ selectedTrip' # null /\ selectedTrip' # selectedTrip
ExactlyOneHighlighted(st, id) ==
    {x \in DOMAIN st : Highlighted(st, x)} = {id}

\* C2 as stated: selecting A and then B leaves exactly one highlighted trip,
\* B, and A has the default paint (opacity 0.7, width 3).
C2_Original ==
    [][Replaces => /\ ExactlyOneHighlighted(style', selectedTrip')
                   /\ DefaultPaint(style', selectedTrip)]_vars
\* C2 amended: selecting A and then B leaves exactly one highlighted trip, B,
\* and A has the faded paint (opacity 0.15, width 2) of a non-selected layer.
C2_ReplacedIsFaded ==
    [][Replaces => /\ ExactlyOneHighlighted(style', selectedTrip')
                   /\ Faded(style', selectedTrip)]_vars
C2_Witness ==
    /\ Viewer /\ failures = 0 /\ lastClick = "replace"
    /\ selectedTrip = TripName(1) /\ Faded(style, TripName(2))

\* C3: with no restyle call failing, whenever no trip is selected (as after a
\* background click that resets a selection) every trip layer has the default
\* opacity and width and the popup row is hidden.
C3_ResetRestoresDefault ==
    /\ lastClick = "reset" =>
          selectedTrip = null /\ dom.selectedTripRow = "none"
    /\ (Viewer /\ failures = 0 /\ selectedTrip = null) =>
          /\ \A id \in TripIds : DefaultPaint(style, id)
          /\ dom.selectedTripRow = "none"
C3_Witness ==
    /\ Viewer /\ failures = 0 /\ lastClick = "reset" /\ Len(tripLayers) >= 2

\* C4: a background click while no trip is selected changes nothing: not the
\* selection, no layer's paint, not the page, not the cache, and no restyle
\* call is made (none throws, whatever layer would make one throw).
C4_BackgroundNoop ==
    [][(lastClick' = "noop" /\ lastClick # "noop") =>
          UNCHANGED <<selectedTrip, style, dom, allTripData, failures,
                      speedMode, showSpeedColors>>]_vars
C4_Witness ==
    /\ Viewer /\ lastClick = "noop" /\ Len(tripLayers) >= 2 /\ failures > 0

(* ========================= aggregated routes ========================== *)
AggOnMap == AGG_LAYER \in DOMAIN style
AggControlsBound == "aggregatedControls" \in bound

\* C5: when the aggregated checkbox goes from unchecked to checked (its
\* listener bound), the aggregated layer is visible and coloured by the mode
\* the radio group has checked now, whatever radio changes came before.
C5_RecheckUsesCurrentMode ==
    [][(AggControlsBound /\ ~dom.aggregatedCheckbox /\ dom'.aggregatedCheckbox) =>
          /\ style'[AGG_LAYER].visibility = "visible"
          /\ style'[AGG_LAYER].color =
                getAggregatedSpeedColorExpression(dom'.speedModeRadio)]_vars
\* the layer is shown with the 'step' colours although no radio listener was
\* ever bound: only the checkbox listener can have put them there
C5_Witness ==
    /\ App /\ AggOnMap /\ "tripControls" \notin bound
    /\ dom.aggregatedCheckbox /\ dom.speedModeRadio = "step"
    /\ style[AGG_LAYER].visibility = "visible"
    /\ style[AGG_LAYER].color = getAggregatedSpeedColorExpression("step")

\* sample_count values of the aggregated features
SampleCounts == 0..(MaxSlider + 1) \cup {9, 10, 11}
\* the features a filter expression admits
Admitted(filter) ==
    {c \in SampleCounts :
        \/ filter = <<>>
        \/ filter[1] = ">=" /\ c >= filter[3]
        \/ filter[1] = ">" /\ c > filter[3]}
\* the integer the slider shows
SliderNumber == CHOOSE k \in SliderValues : DigitsOf(k) = dom.minSamplesSlider

\* C6: once a slider input has been handled, the filter of the aggregated
\* layer is sample_count >= k for the slider's current value k: it admits
\* exactly the features with sample_count >= k, and the value shown is k.
C6_SliderFilter ==
    (App /\ AggOnMap /\ style[AGG_LAYER].filter # <<>>) =>
        /\ style[AGG_LAYER].filter = <<">=", "sample_count", SliderNumber>>
        /\ Admitted(style[AGG_LAYER].filter) =
              {c \in SampleCounts : c >= SliderNumber}
        /\ dom.minSamplesValue = DigitsOf(SliderNumber)
C6_Witness ==
    /\ App /\ AggOnMap
    /\ style[AGG_LAYER].filter = <<">=", "sample_count", 10>>
    /\ Admitted(style[AGG_LAYER].filter) = {10, 11}

(* ============================== loading =============================== *)
TripLoadFailed == "trips" \in logged
AggLoadFailed == "aggregated" \in logged
HandlerFinished == pcLoad = "done" /\ pcAgg = "done"
TripsRegistered ==
    /\ "trips" \in sources
    /\ Range(tripLayers) \subseteq DOMAIN style
    /\ "tripControls" \in bound
AggRegistered ==
    /\ "aggregated-routes" \in sources
    /\ AggOnMap
    /\ AggControlsBound

\* C7: a failed trip load leaves no trip layer and does not keep the
\* aggregated source, layer and controls from being registered; a failed
\* aggregated load leaves no aggregated source or layer and keeps the trip
\* source, layers and controls registered before it.
C7_IsolatedFailures ==
    App =>
      /\ TripLoadFailed =>
            /\ DOMAIN style \ {AGG_LAYER} = {}
            /\ "tripControls" \notin bound
            /\ (HandlerFinished /\ ~AggLoadFailed) => AggRegistered
      /\ AggLoadFailed =>
            /\ "aggregated-routes" \notin sources
            /\ ~AggOnMap
            /\ ~TripLoadFailed => TripsRegistered
C7_Witness ==
    /\ App /\ HandlerFinished /\ TripLoadFailed /\ ~AggLoadFailed /\ AggRegistered

\* the trip load is awaited: its fetch or its parse has not settled
TripLoadPending == pcLoad \in {"tripFetch", "tripJson"}

\* C8 as stated: the aggregated load does not wait for the trip load: while
\* the trip load is pending and the aggregated fetch is not started, a step
\* that starts it with the trip load still pending is possible.
C8_Original ==
    (App /\ TripLoadPending /\ pcAgg = "idle") =>
        ENABLED (Next /\ pcAgg' = "fetch" /\ pcLoad' = pcLoad)
\* C8 amended: the aggregated load is started exactly when the trip load has
\* ended, by success or by failure; it is never under way, and the aggregated
\* layer never registered, while the trip load is pending.
C8_AggregatedAfterTrips ==
    App =>
      /\ (pcAgg # "idle" \/ AggOnMap \/ AggLoadFailed) =>
            /\ ~TripLoadPending
            /\ TripLoadFailed \/ "tripControls" \in bound
      /\ pcLoad = "done" => pcAgg # "idle"
C8_Witness ==
    /\ App /\ pcAgg = "fetch" /\ "tripControls" \in bound /\ Len(tripLayers) = 2

\* C9: before the map's 'load' event has fired no source and no layer is
\* registered and no control is bound.
C9_NothingBeforeLoad ==
    (sources # {} \/ DOMAIN style # {} \/ bound # {}) => pcLoad # "init"
C9_Witness ==
    /\ Viewer /\ pcLoad = "done" /\ "trips" \in sources
    /\ Len(tripLayers) = 2 /\ bound = {"controls", "click"}

(* ====================== guarded restyle loops ========================= *)
\* a step in which a restyle call threw
Throws == failures' = failures + 1
\* the trip layers outside `done`, those that have the paint a handler was
\* to give them
Stale(done) == TripIds \ done
ColourToggled ==
    "controls" \in bound /\ dom'.speedColorsCheckbox # dom.speedColorsCheckbox
ModeChanged ==
    "controls" \in bound /\ showSpeedColors
        /\ dom'.speedModeRadio # dom.speedModeRadio
Selected == selectedTrip' # null /\ ~ColourToggled /\ ~ModeChanged
Reset == selectedTrip # null /\ selectedTrip' = null

\* C10: in each restyle loop a throwing layer does not end the loop: all the
\* other trip layers get the new paint and the steps after the loop are run.
C10_LoopsGuarded ==
    [][(Viewer /\ Throws) =>
        /\ ColourToggled =>
             LET c == IF dom'.speedColorsCheckbox
                      THEN getSpeedColorExpression(speedMode)
                      ELSE Literal(DEFAULT_COLOR)
                 coloured == {id \in TripIds : style'[id].color = c}
             IN  /\ Cardinality(Stale(coloured)) <= 1
                 /\ dom'.speedLegend =
                       IF dom'.speedColorsCheckbox THEN "block" ELSE "none"
        /\ ModeChanged =>
             LET coloured == {id \in TripIds :
                    style'[id].color = getSpeedColorExpression(speedMode')}
             IN  Cardinality(Stale(coloured)) <= 1
        /\ Selected =>
             LET painted == {id \in TripIds :
                    IF id = selectedTrip' THEN Highlighted(style', id)
                                          ELSE Faded(style', id)}
             IN  /\ Cardinality(Stale(painted)) <= 1
                 /\ dom'.selectedTripRow = "flex"
        /\ Reset =>
             LET painted == {id \in TripIds : DefaultPaint(style', id)}
             IN  /\ Cardinality(Stale(painted)) <= 1
                 /\ dom'.selectedTripRow = "none"]_vars

(* ============================ statistics ============================== *)
\* the timer callback runs
TimerRuns == pcStats = "timer" /\ pcStats' = "done"
\* the read of the tile header fails
HeaderFails == pcStats = "getHeader" /\ pcStats' = "failed"

\* C11: once the header is read the approximator jumps to the wide view and
\* its timer callback always runs: it stores a cache entry for every trip
\* layer, sets the summary and puts the map back in the view saved at the
\* start (the view the load handler set), wherever the user has moved the map
\* and whatever was clicked meanwhile.  A failed header read changes neither
\* the view nor the cache, and the cache stays empty after it.
C11_ApproximatorCompletes ==
    /\ (pcStats = "timer") ~> (pcStats = "done")
    /\ [][/\ (pcStats = "getHeader" /\ pcStats' = "timer") => view' = WIDE_VIEW
          /\ TimerRuns =>
                /\ DOMAIN allTripData' = TripIds
                /\ summary'.shown
                /\ view' = originalView /\ originalView = TRIPS_VIEW
          /\ originalView # NoView => originalView' = originalView
          /\ HeaderFails => UNCHANGED <<view, allTripData, summary>>
          /\ pcStats = "failed" =>
                pcStats' = "failed" /\ allTripData' = EmptyMap]_vars
\* the timer has fired after a trip click that used the live query, and the
\* map is back in the saved view
C11_Witness ==
    /\ pcStats = "done" /\ Len(tripLayers) = 2
    /\ DOMAIN allTripData = TripIds /\ summary.shown
    /\ view = TRIPS_VIEW /\ view = originalView
    /\ popup.open /\ popup.source = "query"

\* C12: a trip click takes the totals of its popup from the cache exactly when
\* the cache has an entry for the clicked layer, and from the query of the
\* rendered features otherwise.  The cache is empty until the timer callback
\* has run and has an entry for every trip layer from then on, so a click
\* before it uses the query and every click after it uses the cache, zero
\* totals included; no later event changes a cache entry.
C12_CacheOrQuery ==
    /\ [](/\ pcStats # "done" => allTripData = EmptyMap
          /\ pcStats = "done" => DOMAIN allTripData = TripIds)
    /\ [][/\ (popup'.open /\ popup' # popup) =>
                /\ popup'.layer = selectedTrip'
                /\ IF pcStats = "done"
                   THEN /\ popup'.source = "cache"
                        /\ popup'.distance = allTripData[popup'.layer].distance
                        /\ popup'.time = allTripData[popup'.layer].time
                   ELSE popup'.source = "query"
          /\ pcStats = "done" => allTripData' = allTripData]_vars
\* a popup shows cached totals of zero
C12_Witness ==
    /\ pcStats = "done" /\ popup.open
    /\ popup.source = "cache" /\ popup.distance = 0 /\ popup.time = 0

(* ========================== colouring policy ========================== *)
\* the speed of the feature is absent, null or below zero
NoSpeed(feature, prop) ==
    \/ prop \notin DOMAIN feature
    \/ feature[prop].kind = "null"
    \/ feature[prop].value < 0
\* the colour of the table for speed 0: the first gradient stop, the base of
\* the steps
ColourOfZero(expr) ==
    IF expr.op = "interpolate" THEN Solid(expr.stops[1][2]) ELSE Solid(expr.base)

\* C13: with each colour function, in both modes, a feature whose speed
\* property is absent, null or negative is painted exactly as a feature of
\* speed 0 is: with the table's colour for 0.
C13_NoSpeedIsZero ==
    output.done =>
        LET expr == ColourExpression(input.fn, input.mode)
        IN  NoSpeed(input.feature, expr.prop) =>
               /\ output.colour = evaluate(expr, FeatureWithSpeed(0))
               /\ output.colour = ColourOfZero(expr)
\* a feature of negative average speed painted by the aggregated step table
C13_Witness ==
    /\ output.done /\ input.fn = "appAggregated" /\ input.mode = "step"
    /\ input.feature = FeatureWithSpeed(0 - 2)
    /\ output.colour = Solid("#DC2626")

(* ======================= statistics formatting ======================== *)
Abs(x) == IF x < 0 THEN 0 - x ELSE x
\* the number of units of its last decimal a text stands for
UnitsOf(decimal) == parseInt(decimal.whole \o decimal.frac)

\* C14: totals of d metres and t seconds (t2 half seconds) are shown as: in
\* the popup d / 1000 to the nearest hundredth and floor(t / 60) ':' the
\* rounded t mod 60 on two digits; in the summary d / 1000 to the nearest
\* tenth and 'Hh Mm' when floor(t / 3600) > 0, else 'Mm'; in both the average
\* (d / 1000) / (t / 3600) to the nearest tenth when t > 0, and 0 when t = 0.
\* 12345 m in 1830 s are 12.35 km, 24.3 km/h, 30:30 and 30m.
C14_Formatting ==
    output.done =>
        LET d == input.distance
            t2 == input.time2
            p == output.popup
            s == output.summary
        IN  /\ Len(p.distanceKm.frac) = 2
            /\ Abs(d - 10 * UnitsOf(p.distanceKm)) <= 5
            /\ p.durationFormatted.minutes = DigitsOf(t2 \div 120)
            /\ Len(p.durationFormatted.seconds) = 2
            /\ LET sec == parseInt(p.durationFormatted.seconds)
               IN  (t2 % 120) - 1 < 2 * sec /\ 2 * sec <= (t2 % 120) + 1
            /\ Len(s.statDistance.frac) = 1
            /\ Abs(d - 100 * UnitsOf(s.statDistance)) <= 50
            /\ s.statTotalTime.hours =
                  IF t2 >= 7200 THEN DigitsOf(t2 \div 7200) ELSE <<>>
            /\ LET m == parseInt(s.statTotalTime.minutes)
               IN  120 * m <= t2 % 7200 /\ t2 % 7200 < 120 * (m + 1)
            /\ s.statAvgSpeed = p.avgSpeed
            /\ IF t2 > 0
               THEN /\ Len(p.avgSpeed.frac) = 1
                    /\ Abs(720 * d - 10 * t2 * UnitsOf(p.avgSpeed)) <= 5 * t2
               ELSE p.avgSpeed = [whole |-> <<0>>, frac |-> <<>>]
            /\ (d = 12345 /\ t2 = 3660) =>
                  /\ p.distanceKm = [whole |-> <<1, 2>>, frac |-> <<3, 5>>]
                  /\ p.avgSpeed = [whole |-> <<2, 4>>, frac |-> <<3>>]
                  /\ p.durationFormatted =
                        [minutes |-> <<3, 0>>, seconds |-> <<3, 0>>]
                  /\ s.statTotalTime = [hours |-> <<>>, minutes |-> <<3, 0>>]
\* the totals of the example, formatted
C14_Witness ==
    /\ output.done /\ input.distance = 12345 /\ input.time2 = 3660
    /\ output.popup.distanceKm = [whole |-> <<1, 2>>, frac |-> <<3, 5>>]
    /\ output.summary.statTotalTime = [hours |-> <<>>, minutes |-> <<3, 0>>]

(* ============================== start-up ============================== *)
\* C15: a token that is missing, empty or the placeholder makes the script
\* alert once and log one error, and the start-up goes on: the map is
\* constructed and its 'error' and 'load' listeners are registered; with a
\* token that is set there is no alert and no error entry.
C15_TokenNotFatal ==
    /\ pcLoad = "start" =>
          startup.alerts = 0 /\ ~startup.map /\ "token" \notin logged
    /\ pcLoad # "start" =>
          /\ startup.map
          /\ startup.listeners = {"error", "load"}
          /\ IF TokenNotSet(startup.token)
             THEN startup.alerts = 1 /\ "token" \in logged
             ELSE startup.alerts = 0 /\ "token" \notin logged
\* the script has run with the placeholder token
C15_Witness ==
    /\ App /\ pcLoad = "init" /\ startup.token = PLACEHOLDER_TOKEN
    /\ startup.alerts = 1 /\ startup.map /\ logged = {"token"}

(* ========================= the set of trips =========================== *)
\* the trip metadata has not arrived
BeforeTripLoad ==
    pcLoad \in {"start", "init", "getMetadata", "tripFetch", "tripJson"}
\* a step of a 'load' handler
LoadStep == pcLoad' # pcLoad \/ pcAgg' # pcAgg

\* C16: tripLayers is empty until the trip metadata has arrived and is then
\* the declared layer ids, in their order, for good; the map has a layer for
\* each of them; no step other than a step of a 'load' handler (no click, no
\* control, no timer callback) changes tripLayers or the set of map layers.
C16_TripsFixed ==
    /\ [](/\ BeforeTripLoad => tripLayers = <<>> /\ DOMAIN style = {}
          /\ \E n \in 0..MaxTrips : tripLayers = DeclaredLayers(n)
          /\ DOMAIN style \ {AGG_LAYER} = TripIds)
    /\ [][/\ ~LoadStep =>
                tripLayers' = tripLayers /\ DOMAIN style' = DOMAIN style
          /\ ~BeforeTripLoad => tripLayers' = tripLayers
          /\ DOMAIN style \subseteq DOMAIN style']_vars
\* app.js after clicks on every control, with both trip layers on the map
C16_Witness ==
    /\ App /\ tripLayers = DeclaredLayers(2)
    /\ DOMAIN style = TripIds \cup {AGG_LAYER}
    /\ dom.tripFilter = TripName(2) /\ ~dom.tripsCheckbox
    /\ dom.speedSegmentsCheckbox /\ dom.aggregatedCheckbox
    /\ dom.minSamplesSlider = DigitsOf(10)

(* ============================ idempotence ============================= *)
\* C17: from every state, each control's listener run twice with the same
\* value leaves the layers' visibility, colour, width, opacity and filter,
\* the page and its statistics text as running it once does (no restyle call
\* throwing).
C17_Idempotent ==
    /\ App =>
          /\ \A v \in dom.tripFilterOptions :
                onTripFilter(onTripFilter(Ui, v), v) = onTripFilter(Ui, v)
          /\ \A checked \in BOOLEAN :
                /\ onTripsCheckbox(onTripsCheckbox(Ui, checked), checked)
                      = onTripsCheckbox(Ui, checked)
                /\ onSpeedSegments(onSpeedSegments(Ui, checked), checked)
                      = onSpeedSegments(Ui, checked)
                /\ onAggregatedCheckbox(onAggregatedCheckbox(Ui, checked), checked)
                      = onAggregatedCheckbox(Ui, checked)
          /\ \A m \in Modes :
                onAppSpeedMode(onAppSpeedMode(Ui, m), m) = onAppSpeedMode(Ui, m)
          /\ \A k \in SliderValues :
                onMinSamples(onMinSamples(Ui, k), k) = onMinSamples(Ui, k)
    /\ Viewer =>
          /\ \A checked \in BOOLEAN :
                onSpeedColors(onSpeedColors(Ui, checked, {}), checked, {})
                   = onSpeedColors(Ui, checked, {})
          /\ \A m \in Modes :
                onViewerSpeedMode(onViewerSpeedMode(Ui, m, {}), m, {})
                   = onViewerSpeedMode(Ui, m, {})
\* the trips are hidden behind a filter that admits one of two layers, and
\* the listener of the trips checkbox run again with 'unchecked' changes
\* nothing, while run with 'checked' it would
C17_Witness ==
    /\ App /\ "tripControls" \in bound /\ Len(tripLayers) = 2
    /\ dom.tripFilter = TripName(1) /\ ~dom.tripsCheckbox
    /\ style[TripName(1)].visibility = "none"
    /\ onTripsCheckbox(Ui, FALSE) = Ui
    /\ onTripsCheckbox(Ui, TRUE) # Ui

(* ===================== one click, two listeners ======================= *)
\* C18: the popup of a trip layer is open exactly from a click on that
\* layer's features until the next click.  While it is open that layer is
\* the selected trip, whatever was selected before the click, the detail row
\* is shown and, no restyle call having thrown, the layer is highlighted and
\* every other is faded: the general click listener, run on the same event
\* after the layer listener, has reset nothing.
C18_TripClickSelects ==
    (Viewer /\ popup.open) =>
        /\ popup.layer \in TripIds
        /\ selectedTrip = popup.layer
        /\ lastClick \in {"select", "replace"}
        /\ dom.selectedTripRow = "flex"
        /\ failures = 0 =>
              /\ Highlighted(style, selectedTrip)
              /\ \A id \in TripIds \ {selectedTrip} : Faded(style, id)
\* a click on the second trip while the first was selected has left the
\* second selected, highlighted, its row shown and its popup open
C18_Witness ==
    /\ Viewer /\ lastClick = "replace" /\ selectedTrip = TripName(2)
    /\ dom.selectedTripRow = "flex" /\ Highlighted(style, TripName(2))
    /\ popup.open /\ popup.layer = TripName(2)

(* ========================= colour of the trips ======================== *)
\* every trip layer has the line-color c
TripColour(st, c) == \A id \in TripIds : st[id].color = c
\* the colour the trips are to have: by speed in the mode of the speedMode
\* variable when speed colours are on, the default otherwise
ColourFor(on, mode) ==
    IF on THEN getSpeedColorExpression(mode) ELSE Literal(DEFAULT_COLOR)
\* speed colours are switched on: showSpeedColors in the viewer, the
\* speed-segments checkbox in app.js (which has no variable for it)
SpeedColoursOn == IF Viewer THEN showSpeedColors ELSE dom.speedSegmentsCheckbox
ColourConsistent == TripColour(style, ColourFor(SpeedColoursOn, speedMode))
SameTripColours == \A id \in TripIds : style'[id].color = style[id].color

AdmittedTrips == {id \in TripIds : dom.tripFilter = "all" \/ id = dom.tripFilter}
VisibleTrips == {id \in TripIds : style[id].visibility = "visible"}
\* no trip is visible when the trips checkbox is unchecked, exactly the
\* admitted ones are when it is checked
VisibleAsControlsSay ==
    VisibleTrips = IF dom.tripsCheckbox THEN AdmittedTrips ELSE {}

\* C20 as stated: with the listeners bound and the visible trips as the two
\* controls say, a change of the dropdown or a toggle of the trips checkbox
\* leaves the visible trips as the two controls say: none when the box is
\* unchecked, exactly the admitted ones when it is checked.
C20_VisibilityFollowsControls ==
    [][(/\ App /\ "tripControls" \in bound
        /\ VisibleAsControlsSay
        /\ \/ dom'.tripFilter # dom.tripFilter
           \/ dom'.tripsCheckbox # dom.tripsCheckbox)
          => VisibleAsControlsSay']_vars

(* ==================== colour of the aggregated layer ================== *)
\* the aggregated layer is on the map and visible
AggVisible == AggOnMap /\ style[AGG_LAYER].visibility = "visible"

\* C21 as stated: whenever the aggregated layer exists and is visible, its
\* line-color is the aggregated colour expression of the mode the radio
\* group has checked, also when the trip load failed and the aggregated load
\* succeeded.
C21_AggColourFollowsMode ==
    (App /\ AggVisible) =>
        style[AGG_LAYER].color
            = getAggregatedSpeedColorExpression(dom.speedModeRadio)

(* ========================= the popup duration ========================= *)
\* twice the seconds the text 'm:ss' stands for
DurationHalfSeconds(duration) ==
    2 * (60 * parseInt(duration.minutes) + parseInt(duration.seconds))

\* C22 as stated: for every total time (whole or half seconds) the duration
\* 'm:ss' of the popup has a seconds field from 00 to 59, and m * 60 + ss is
\* less than one second from the total time.
C22_DurationWellFormed ==
    output.done =>
        LET duration == output.popup.durationFormatted
        IN  /\ Len(duration.seconds) = 2
            /\ parseInt(duration.seconds) \in 0..59
            /\ Abs(DurationHalfSeconds(duration) - input.time2) < 2

(* ==================== the two modes of one table ====================== *)
\* the speeds that are breakpoints of a table
Breakpoints(expr) == {expr.stops[i][1] : i \in 1..Len(expr.stops)}
\* the speeds that are breakpoints of both tables of a colour function
SharedBreakpoints(fn) ==
    Breakpoints(ColourExpression(fn, "gradient"))
        \cap Breakpoints(ColourExpression(fn, "step"))
OtherMode(mode) == IF mode = "gradient" THEN "step" ELSE "gradient"

\* C23 as stated: a feature whose speed is a breakpoint of both the gradient
\* and the step table of a colour function is painted the same colour in
\* either mode.
C23_ModesAgreeAtShared ==
    output.done =>
        \A v \in SharedBreakpoints(input.fn) :
            input.feature = FeatureWithSpeed(v) =>
                output.colour =
                    evaluate(ColourExpression(input.fn, OtherMode(input.mode)),
                             input.feature)

====
